---- MODULE Spec2Model ----
(***************************************************************************)
(* Product category predictor (product_predictor/ml_model.py) and its      *)
(* /predict and /health request handlers (product_predictor/app.py).       *)
(*                                                                         *)
(* Text is modelled as a sequence of one-character strings; a Python value *)
(* is a record tagged with its type, so that a None or an int can be told  *)
(* from a str.  A similarity score (a float) is an integer number of       *)
(* hundredths.                                                             *)
(***************************************************************************)
EXTENDS Integers, Sequences, FiniteSets, TLC

(***************************************************************************)
(* Bounds of the model.                                                    *)
(***************************************************************************)
\* the longest text handed to a text function, in pieces of TextPieces
MaxPieces == 3
\* the longest description handed to the predictor, in pieces of QueryPieces
MaxQueryPieces == 3
\* the longest batch of descriptions
MaxBatch == 2
\* the number of request threads of the server
NumThreads == 2
\* the number of requests each thread serves
MaxRequests == 2

(***************************************************************************)
(* Python values.                                                          *)
(***************************************************************************)
PyStr(s) == [kind |-> "str", val |-> s]
PyInt(n) == [kind |-> "int", val |-> n]
\* a float, in hundredths
PyFloat(n) == [kind |-> "float", val |-> n]
PyList(l) == [kind |-> "list", val |-> l]
PyDict(d) == [kind |-> "dict", val |-> d]
PyNone == [kind |-> "NoneType", val |-> <<>>]
\* an exception leaving a call
Raised(exc) == [kind |-> "raise", val |-> exc]
IsRaised(v) == v.kind = "raise"

(***************************************************************************)
(* Characters and the str methods the code uses.                           *)
(***************************************************************************)
UpperLetters == <<"A", "B", "C", "D", "E", "F", "G", "H", "I", "J", "K", "L", "M", "N", "O", "P", "Q", "R", "S", "T", "U", "V", "W", "X", "Y", "Z">>
LowerLetters == <<"a", "b", "c", "d", "e", "f", "g", "h", "i", "j", "k", "l", "m", "n", "o", "p", "q", "r", "s", "t", "u", "v", "w", "x", "y", "z">>
DigitChars == {"0", "1", "2", "3", "4", "5", "6", "7", "8", "9"}
\* str.isspace(), the class \s of re
Whitespace == {" ", "\t", "\n", "\r", "\f"}

\* Op(v), with v computed once
With(v, Op(_)) == CHOOSE r \in {Op(x) : x \in {v}} : TRUE

Range(s) == {s[i] : i \in DOMAIN s}
IsUpper(c) == c \in Range(UpperLetters)
IsLower(c) == c \in Range(LowerLetters)
IsSpace(c) == c \in Whitespace

\* str.lower() on one character
LowerChar(c) ==
    IF IsUpper(c)
    THEN LowerLetters[CHOOSE i \in DOMAIN UpperLetters : UpperLetters[i] = c]
    ELSE c

\* str.lower()
lower(s) == With(s, LAMBDA t : [i \in DOMAIN t |-> LowerChar(t[i])])

\* the elements of a set of numbers, in ascending order
Ascending(S) ==
    With(S, LAMBDA T :
        [k \in 1..Cardinality(T) |->
            CHOOSE i \in T : Cardinality({j \in T : j < i}) = k - 1])

\* str.strip(): s without its leading and trailing whitespace
strip(s) ==
    With(s, LAMBDA t :
        With(Ascending({i \in DOMAIN t : ~IsSpace(t[i])}), LAMBDA keep :
            IF keep = <<>> THEN <<>> ELSE SubSeq(t, keep[1], keep[Len(keep)])))

\* str.split(): the maximal runs of non-whitespace characters, in order
split(s) ==
    With(s, LAMBDA t :
        With(<<Ascending({i \in DOMAIN t :
                   ~IsSpace(t[i]) /\ (i = 1 \/ IsSpace(t[i - 1]))}),
               Ascending({i \in DOMAIN t :
                   ~IsSpace(t[i]) /\ (i = Len(t) \/ IsSpace(t[i + 1]))})>>,
             LAMBDA b : [k \in DOMAIN b[1] |-> SubSeq(t, b[1][k], b[2][k])]))

\* ' '.join(words)
RECURSIVE join(_)
join(words) ==
    With(words, LAMBDA w :
        IF w = <<>> THEN <<>>
        ELSE IF Len(w) = 1 THEN w[1]
        ELSE w[1] \o <<" ">> \o join(Tail(w)))

\* re.sub(r'[^a-zA-Z0-9\s]', ' ', s)
re_sub(s) ==
    With(s, LAMBDA t :
        [i \in DOMAIN t |->
            IF IsLower(t[i]) \/ IsUpper(t[i]) \/ t[i] \in DigitChars \/ IsSpace(t[i])
            THEN t[i] ELSE " "])

\* str(v), for the values of the model: a str, None, a one-digit int
str(v) ==
    CASE v.kind = "str" -> v.val
      [] v.kind = "NoneType" -> <<"N", "o", "n", "e">>
      [] v.kind = "int" -> <<CHOOSE c \in DigitChars : c = ToString(v.val)>>

(***************************************************************************)
(* ProductCategoryPredictor: the correction table and the text methods.    *)
(***************************************************************************)
\* the items of the dict literal
tech_items == {
    <<<<"m","o","t","r">>, <<"m","o","t","o","r">>>>,
    <<<<"w","a","s","i","n","g">>, <<"w","a","s","h","i","n","g">>>>,
    <<<<"m","a","c","h","n">>, <<"m","a","c","h","i","n","e">>>>,
    <<<<"p","m","p">>, <<"p","u","m","p">>>>,
    <<<<"d","i","s","h","w","s","h","r">>, <<"d","i","s","h","w","a","s","h","e","r">>>>,
    <<<<"b","l","w","r">>, <<"b","l","o","w","e","r">>>>,
    <<<<"h","e","e","t","r">>, <<"h","e","a","t","e","r">>>>,
    <<<<"g","y","s","e","r">>, <<"g","e","y","s","e","r">>>>,
    <<<<"s","w","i","c","h">>, <<"s","w","i","t","c","h">>>>,
    <<<<"g","r","n","d","r">>, <<"g","r","i","n","d","e","r">>>>,
    <<<<"c","o","m","p","r","e","s","r">>, <<"c","o","m","p","r","e","s","s","o","r">>>>,
    <<<<"s","e","n","s","r">>, <<"s","e","n","s","o","r">>>>,
    <<<<"t","u","r","b","i","n">>, <<"t","u","r","b","i","n","e">>>>,
    <<<<"r","e","l","e","y">>, <<"r","e","l","a","y">>>>,
    <<<<"c","i","r","c","u","t">>, <<"c","i","r","c","u","i","t">>>>,
    <<<<"i","n","v","e","r","t","r">>, <<"i","n","v","e","r","t","e","r">>>>,
    <<<<"m","o","d","u","l">>, <<"m","o","d","u","l","e">>>>,
    <<<<"s","o","l","r">>, <<"s","o","l","a","r">>>>,
    <<<<"b","e","a","r","n","g">>, <<"b","e","a","r","i","n","g">>>>,
    <<<<"r","o","l","l","r">>, <<"r","o","l","l","e","r">>>>,
    <<<<"a","c","t","u","a","t","r","r">>, <<"a","c","t","u","a","t","o","r">>>>,
    <<<<"d","a","m","p","r">>, <<"d","a","m","p","e","r">>>>,
    <<<<"d","r","i","v">>, <<"d","r","i","v","e">>>>,
    <<<<"e","x","t","r","u","u","d","e","r">>, <<"e","x","t","r","u","d","e","r">>>>,
    <<<<"c","o","u","p","l","n","g">>, <<"c","o","u","p","l","i","n","g">>>>,
    <<<<"b","e","r","n","r">>, <<"b","u","r","n","e","r">>>>,
    <<<<"s","y","t","e","m">>, <<"s","y","s","t","e","m">>>>,
    <<<<"c","t","r","l">>, <<"c","o","n","t","r","o","l">>>>,
    <<<<"b","o","r","d">>, <<"b","o","a","r","d">>>>,
    <<<<"u","n">>, <<"u","n","i","t">>>>,
    <<<<"f","l">>, <<"u","n","i","t">>>>
}

\* a dict from its items
DictOf(items) ==
    [k \in {p[1] : p \in items} |-> (CHOOSE p \in items : p[1] = k)[2]]

\* the table with 'un' corrected to 'fl', itself a key
tech_corrections_chained ==
    DictOf((tech_items \ {<<<<"u", "n">>, <<"u", "n", "i", "t">>>>})
           \cup {<<<<"u", "n">>, <<"f", "l">>>>})

tech_corrections == DictOf(tech_items)

\* preprocess_text without the final strip()
preprocess_text_unstripped(text) == PyStr(re_sub(lower(str(text))))

\* preprocess_text(text)
preprocess_text(text) == PyStr(strip(re_sub(lower(str(text)))))

\* the loop of correct_spelling: corrected_words
CorrectWords(words) ==
    With(words, LAMBDA w :
        [i \in DOMAIN w |->
            IF w[i] \in DOMAIN tech_corrections THEN tech_corrections[w[i]] ELSE w[i]])

\* correct_spelling(query); query.lower() raises on a value that is no str
correct_spelling(query) ==
    IF query.kind # "str" THEN Raised("AttributeError")
    ELSE PyStr(join(CorrectWords(split(lower(query.val)))))

\* the suggestion made for a word of the table
Suggestion(word) ==
    PyStr(<<"'">> \o word \o <<"'", " ", "m", "i", "g", "h", "t", " ", "b", "e", " ", "'">> \o tech_corrections[word] \o <<"'">>)

\* the loop of get_spelling_suggestions, suggesting a word once however often it occurs
SuggestWords_once(words) ==
    With(SelectSeq([i \in DOMAIN words |-> <<i, words[i]>>], LAMBDA p :
             /\ p[2] \in DOMAIN tech_corrections /\ p[2] # tech_corrections[p[2]]
             /\ \A j \in 1..(p[1] - 1) : words[j] # p[2]),
         LAMBDA w : [i \in DOMAIN w |-> Suggestion(w[i][2])])

\* the loop of get_spelling_suggestions: suggestions
SuggestWords(words) ==
    With(SelectSeq(words, LAMBDA word :
             word \in DOMAIN tech_corrections /\ word # tech_corrections[word]),
         LAMBDA w : [i \in DOMAIN w |-> Suggestion(w[i])])

\* get_spelling_suggestions(query)
get_spelling_suggestions(query) ==
    IF query.kind # "str" THEN Raised("AttributeError")
    ELSE PyList(SuggestWords(split(lower(query.val))))

(***************************************************************************)
(* The catalog file and the pretrained model.  The sentence encoder is a   *)
(* fixed function of the text it is given: here the set of its words, and  *)
(* the cosine of two such sets, squared, in hundredths.                    *)
(***************************************************************************)
Row(id, name) == [category_id |-> PyInt(id), name |-> PyStr(name)]

\* contents data/oio_category.csv may have: rows repeat, a name may come
\* under two ids and in two spellings
CSVFiles == {
    << Row(1, <<"W", "a", "t", "e", "r", " ", "P", "u", "m", "p">>),
       Row(2, <<"W", "a", "s", "h", "i", "n", "g", " ", "M", "a", "c", "h", "i", "n", "e">>),
       Row(1, <<"W", "a", "t", "e", "r", " ", "P", "u", "m", "p">>),
       Row(3, <<"M", "o", "t", "o", "r", " ", "U", "n", "i", "t">>) >>,
    << Row(4, <<"U", "n", "i", "t">>),
       Row(5, <<"u", "n", "i", "t">>),
       Row(4, <<"U", "n", "i", "t">>),
       Row(4, <<"P", "u", "m", "p", "-", "U", "n", "i", "t">>),
       Row(6, <<"U", "n", "k", "n", "o", "w", "n">>) >>
}

\* the library calls that may fail while a query is served
Faults == {"none", "encode", "cosine_similarity"}

\* DataFrame.drop_duplicates().reset_index(drop=True): the first occurrence
\* of each row, in order
RECURSIVE drop_duplicates(_)
drop_duplicates(rows) ==
    IF rows = <<>> THEN <<>>
    ELSE With(drop_duplicates(SubSeq(rows, 1, Len(rows) - 1)), LAMBDA init :
             IF rows[Len(rows)] \in Range(init) THEN init
             ELSE Append(init, rows[Len(rows)]))

\* model1.encode(text)
encode(text) == Range(split(text.val))

\* the cosine of two embeddings; a zero vector has similarity 0
Cosine(q, e) ==
    IF q = {} \/ e = {} THEN 0
    ELSE (100 * Cardinality(q \cap e) * Cardinality(q \cap e))
             \div (Cardinality(q) * Cardinality(e))

\* cosine_similarity(query_embedding, category_embeddings).flatten()
cosine_similarity(q, embeddings) ==
    With(<<q, embeddings>>, LAMBDA a :
        [i \in DOMAIN a[2] |-> Cosine(a[1], a[2][i])])

\* an argmax that returns the last index of the maximum
argmax_last(a) ==
    With(a, LAMBDA v :
        CHOOSE i \in DOMAIN v :
            /\ \A j \in DOMAIN v : v[j] <= v[i]
            /\ \A j \in DOMAIN v : j > i => v[j] < v[i])

\* ndarray.argmax(): the first index of the maximum (indices from 1 here)
argmax(a) ==
    With(a, LAMBDA v :
        CHOOSE i \in DOMAIN v :
            /\ \A j \in DOMAIN v : v[j] <= v[i]
            /\ \A j \in DOMAIN v : j < i => v[j] < v[i])

\* __init__ and _setup_model: the instance built from the file
ProductCategoryPredictor(csv_data, id) ==
    With(drop_duplicates(csv_data), LAMBDA cats :
        [kind |-> "ProductCategoryPredictor",
         val |-> [id |-> id,
                  categories |-> cats,
                  category_embeddings |->
                      [i \in DOMAIN cats |-> encode(preprocess_text(cats[i].name))]]])

(***************************************************************************)
(* The state of the process.                                               *)
(***************************************************************************)
VARIABLES
    csv,          \* the rows of data/oio_category.csv
    fault,        \* the library call that fails at present, or "none"
    predictor,    \* the module global of ml_model.py: None or the instance
    constructed,  \* how many times ProductCategoryPredictor() has run
    last,         \* the call or request being answered, with its outcome
    pc,           \* per request thread: its place in the handler
    mine,         \* per request thread: the instance it has built
    got,          \* per request thread: what get_predictor() returned to it
    served        \* per request thread: the requests it has taken

vars == <<csv, fault, predictor, constructed, last, pc, mine, got, served>>

(***************************************************************************)
(* predict_category and predict_multiple.  A call yields what it returns   *)
(* (ret, or the exception that leaves it), what it printed (stdout) and    *)
(* the descriptions it handed to predict_category (calls).                 *)
(***************************************************************************)
Effect(ret, stdout, calls) == [ret |-> ret, stdout |-> stdout, calls |-> calls]

\* the dict returned by predict_category
Result(original_query, used_query, cat_id, cat_name, score, suggestions) ==
    PyDict(("original_query" :> original_query)
        @@ ("used_query" :> used_query)
        @@ ("synonym" :> used_query)
        @@ ("Predicted Cat ID" :> cat_id)
        @@ ("Predicted Cat Name" :> cat_name)
        @@ ("Confidence Score" :> score)
        @@ ("spelling_suggestions" :> suggestions))

\* the conditional with == for !=
UsedQuery_swapped(corrected_query, description) ==
    IF corrected_query = description THEN corrected_query ELSE description

\* corrected_query if corrected_query != description else description
UsedQuery(corrected_query, description) ==
    IF corrected_query # description THEN corrected_query ELSE description

\* BestMatch with the name read from the first row instead of the best one
BestMatch_stale_name(self, similarities, original_query, used_query, spelling_suggestions) ==
    IF similarities = <<>> THEN Raised("ValueError")
    ELSE With(argmax(similarities), LAMBDA best_idx :
             Result(original_query, used_query,
                    self.categories[best_idx].category_id,
                    self.categories[1].name,
                    PyFloat(similarities[best_idx]),
                    spelling_suggestions))

\* the best match and the dict returned for it; argmax raises on no scores
BestMatch(self, similarities, original_query, used_query, spelling_suggestions) ==
    IF similarities = <<>> THEN Raised("ValueError")
    ELSE With(argmax(similarities), LAMBDA best_idx :
             Result(original_query, used_query,
                    self.categories[best_idx].category_id,
                    self.categories[best_idx].name,
                    PyFloat(similarities[best_idx]),
                    spelling_suggestions))

\* the body of the try block of predict_category: the dict, or the exception
TryPredict(self, description) ==
    With(get_spelling_suggestions(description), LAMBDA spelling_suggestions :
    With(correct_spelling(description), LAMBDA corrected_query :
        IF IsRaised(spelling_suggestions) THEN spelling_suggestions
        ELSE IF IsRaised(corrected_query) THEN corrected_query
        ELSE
    With(UsedQuery(corrected_query, description), LAMBDA used_query :
    With(preprocess_text(used_query), LAMBDA processed_text :
        IF fault = "encode" THEN Raised("RuntimeError")
        ELSE
    With(encode(processed_text), LAMBDA query_embedding :
        IF fault = "cosine_similarity" THEN Raised("ValueError")
        ELSE
    With(cosine_similarity(query_embedding, self.category_embeddings),
         LAMBDA similarities :
        BestMatch(self, similarities, description, used_query,
                  spelling_suggestions)))))))

\* the dict of the except branch
Sentinel(description) ==
    Result(description, description, PyNone, PyStr(<<"U", "n", "k", "n", "o", "w", "n">>),
           PyFloat(0), PyList(<<>>))

\* predict_category with an except branch that catches ValueError alone
predict_category_narrow(self, description) ==
    With(TryPredict(self, description), LAMBDA r :
        IF IsRaised(r) /\ r.val = "ValueError"
        THEN Effect(Sentinel(description),
                    <<[error |-> r.val, description |-> description]>>,
                    <<description>>)
        ELSE Effect(r, <<>>, <<description>>))

\* predict_category(description)
predict_category(self, description) ==
    With(TryPredict(self, description), LAMBDA r :
        IF IsRaised(r)
        THEN Effect(Sentinel(description),
                    <<[error |-> r.val, description |-> description]>>,
                    <<description>>)
        ELSE Effect(r, <<>>, <<description>>))

\* desc.strip(), which raises on a value that is no str
py_strip(desc) ==
    IF desc.kind # "str" THEN Raised("AttributeError") ELSE PyStr(strip(desc.val))

\* the loop of predict_multiple without the strip() of each description
RECURSIVE PredictLoop_unstripped(_, _, _)
PredictLoop_unstripped(self, descriptions, results) ==
    IF descriptions = <<>> THEN results
    ELSE With(<<results, Head(descriptions)>>, LAMBDA a :
             IF a[2].kind # "str" THEN Effect(Raised("AttributeError"), a[1].stdout, a[1].calls)
             ELSE With(predict_category(self, a[2]), LAMBDA e :
                      PredictLoop_unstripped(self, Tail(descriptions),
                          Effect(PyList(Append(a[1].ret.val, e.ret)),
                                 a[1].stdout \o e.stdout, a[1].calls \o e.calls))))

\* the loop of predict_multiple, from the results so far
RECURSIVE PredictLoop(_, _, _)
PredictLoop(self, descriptions, results) ==
    IF descriptions = <<>> THEN results
    ELSE With(<<results, py_strip(Head(descriptions))>>, LAMBDA a :
             IF IsRaised(a[2]) THEN Effect(a[2], a[1].stdout, a[1].calls)
             ELSE With(predict_category(self, a[2]), LAMBDA e :
                      PredictLoop(self, Tail(descriptions),
                          Effect(PyList(Append(a[1].ret.val, e.ret)),
                                 a[1].stdout \o e.stdout, a[1].calls \o e.calls))))

\* predict_multiple(descriptions)
predict_multiple(self, descriptions) ==
    PredictLoop(self, descriptions.val, Effect(PyList(<<>>), <<>>, <<>>))

\* get_predictor(), run without interruption
get_predictor ==
    IF predictor = PyNone THEN ProductCategoryPredictor(csv, constructed + 1)
    ELSE predictor

(***************************************************************************)
(* app.py: the /predict and /health handlers.  A request body is a         *)
(* function from its keys; a response is its status and its JSON body.     *)
(***************************************************************************)
\* data.get(key, default)
Get(data, key, default) == IF key \in DOMAIN data THEN data[key] ELSE default

Response(status, body, e) ==
    [status |-> status, body |-> body, stdout |-> e.stdout, calls |-> e.calls]

NoEffect == Effect(PyNone, <<>>, <<>>)

ErrorBody(message) == [success |-> FALSE, error |-> message]

\* the comprehension without its condition: [desc.strip() for desc in descriptions]
FilterEmpty_unfiltered(descriptions) ==
    With([i \in DOMAIN descriptions |-> py_strip(descriptions[i])], LAMBDA stripped :
        IF \E i \in DOMAIN stripped : IsRaised(stripped[i])
        THEN Raised("AttributeError")
        ELSE PyList(stripped))

\* [desc.strip() for desc in descriptions if desc.strip()]
FilterEmpty(descriptions) ==
    With([i \in DOMAIN descriptions |-> py_strip(descriptions[i])], LAMBDA stripped :
        IF \E i \in DOMAIN stripped : IsRaised(stripped[i])
        THEN Raised("AttributeError")
        ELSE PyList(SelectSeq(stripped, LAMBDA desc : desc.val # <<>>)))

\* the branch of predict() for type 'single'
PredictSingle(self, data) ==
    With(py_strip(Get(data, "description", PyStr(<<>>))), LAMBDA description :
        IF IsRaised(description)
        THEN Response(500, ErrorBody("Prediction failed"), NoEffect)
        ELSE IF description.val = <<>>
        THEN Response(400, ErrorBody("Please provide a product description"), NoEffect)
        ELSE
    With(predict_category(self, description), LAMBDA e :
        Response(200, [success |-> TRUE, type |-> "single", result |-> e.ret], e)))

\* the branch of predict() for type 'multiple'
PredictMultiple(self, data) ==
    With(Get(data, "descriptions", PyList(<<>>)), LAMBDA descriptions :
        IF descriptions.val = <<>>
        THEN Response(400, ErrorBody("Please provide product descriptions"), NoEffect)
        ELSE
    With(FilterEmpty(descriptions.val), LAMBDA filtered :
        IF IsRaised(filtered)
        THEN Response(500, ErrorBody("Prediction failed"), NoEffect)
        ELSE IF filtered.val = <<>>
        THEN Response(400, ErrorBody("Please provide valid product descriptions"), NoEffect)
        ELSE
    With(predict_multiple(self, filtered), LAMBDA e :
        IF IsRaised(e.ret)
        THEN Response(500, ErrorBody("Prediction failed"), e)
        ELSE Response(200, [success |-> TRUE, type |-> "multiple", results |-> e.ret], e))))

\* predict(): the handler of POST /predict, given the predictor it obtained
predict(self, data) ==
    LET query_type == Get(data, "type", "single")
    IN  IF query_type = "single" THEN PredictSingle(self, data)
        ELSE IF query_type = "multiple" THEN PredictMultiple(self, data)
        ELSE Response(400, ErrorBody("Invalid query type"), NoEffect)

\* health(): the handler of GET /health, given the predictor it obtained
health(self) ==
    With(predict_category(self, PyStr(<<"t", "e", "s", "t", " ", "m", "o", "t", "o", "r">>)),
         LAMBDA e :
        Response(200, [status |-> "healthy", predictor_status |-> "operational"], e))

(***************************************************************************)
(* The inputs of the model.                                                *)
(***************************************************************************)
RECURSIVE Flatten(_)
Flatten(ps) ==
    With(ps, LAMBDA p : IF p = <<>> THEN <<>> ELSE Head(p) \o Flatten(Tail(p)))

\* the texts made of at most n of the pieces
TextsUpTo(pieces, n) ==
    UNION {{Flatten(f) : f \in [1..k -> pieces]} : k \in 0..n}

TextPieces == {
    <<" ">>, <<"\t">>, <<"-">>, <<"U", "n">>, <<"x", "7">>
}

QueryPieces == {
    <<" ">>, <<"P", "u", "m", "p">>, <<"w", "a", "s", "i", "n", "g">>, <<"m", "a", "c", "h", "n">>, <<"u", "n">>, <<"o", "i", "l">>
}

\* the strings handed to the text functions
Texts == {PyStr(s) : s \in TextsUpTo(TextPieces, MaxPieces)}

\* values that are no str
NonStrings == {PyNone, PyInt(5)}

\* the descriptions handed to predict_category
Descriptions == {PyStr(s) : s \in TextsUpTo(QueryPieces, MaxQueryPieces)} \cup NonStrings

\* the descriptions a request is made of
BatchItems == {
    PyStr(<<>>), PyStr(<<" ">>), PyStr(<<" ", "m", "o", "t", "r", " ">>), PyStr(<<"P", "u", "m", "p">>), PyStr(<<"u", "n", " ", " ", "f", "l", "\t">>), PyNone
}

\* the lists of at most MaxBatch descriptions
Batches == {PyList(l) : l \in UNION {[1..k -> BatchItems] : k \in 0..MaxBatch}}

\* the JSON bodies of the requests to /predict
Requests ==
    {("type" :> "single") @@ ("description" :> d) : d \in BatchItems \cup NonStrings}
    \cup {("description" :> d) : d \in BatchItems \cup NonStrings}
    \cup {("type" :> "single")}
    \cup {("type" :> "multiple") @@ ("descriptions" :> b) : b \in Batches}
    \cup {("type" :> "multiple"), ("type" :> "bulk")}

Threads == 1..NumThreads

(***************************************************************************)
(* One caller at a time: each action is one whole call or request, made    *)
(* when the previous one has been answered.                                *)
(***************************************************************************)
Idle == [op |-> "idle", arg |-> PyNone, ret |-> PyNone, stdout |-> <<>>, calls |-> <<>>]

Init ==
    /\ csv \in CSVFiles
    /\ fault \in Faults
    /\ predictor = PyNone
    /\ constructed = 0
    /\ last = Idle
    /\ pc = [t \in Threads |-> "idle"]
    /\ mine = [t \in Threads |-> PyNone]
    /\ got = [t \in Threads |-> PyNone]
    /\ served = [t \in Threads |-> 0]

\* the effect of get_predictor() on the process
Obtain ==
    /\ predictor' = get_predictor
    /\ constructed' = IF predictor = PyNone THEN constructed + 1 ELSE constructed
    /\ UNCHANGED <<csv, fault, pc, mine, got, served>>

Outcome(op, arg, e) ==
    [op |-> op, arg |-> arg, ret |-> e.ret, stdout |-> e.stdout, calls |-> e.calls]

\* POST /predict
HandlePredict ==
    /\ last.op = "idle"
    /\ \E data \in Requests :
        \E r \in {predict(get_predictor.val, data)} :
            last' = Outcome("predict", data, Effect([status |-> r.status, body |-> r.body],
                                                    r.stdout, r.calls))
    /\ Obtain

\* GET /health
HandleHealth ==
    /\ last.op = "idle"
    /\ \E r \in {health(get_predictor.val)} :
            last' = Outcome("health", PyNone, Effect([status |-> r.status, body |-> r.body],
                                                     r.stdout, r.calls))
    /\ Obtain

\* get_predictor().predict_category(description)
CallPredictCategory ==
    /\ last.op = "idle"
    /\ \E description \in Descriptions :
        \E e \in {predict_category(get_predictor.val, description)} :
            last' = Outcome("predict_category", description, e)
    /\ Obtain

\* get_predictor().predict_multiple(descriptions)
CallPredictMultiple ==
    /\ last.op = "idle"
    /\ \E descriptions \in Batches :
        \E e \in {predict_multiple(get_predictor.val, descriptions)} :
            last' = Outcome("predict_multiple", descriptions, e)
    /\ Obtain

\* get_predictor().correct_spelling(query)
CallCorrectSpelling ==
    /\ last.op = "idle"
    /\ \E query \in Texts \cup NonStrings :
        \E ret \in {correct_spelling(query)} :
            last' = Outcome("correct_spelling", query, Effect(ret, <<>>, <<>>))
    /\ Obtain

\* get_predictor().preprocess_text(text)
CallPreprocessText ==
    /\ last.op = "idle"
    /\ \E text \in Texts \cup NonStrings :
        \E ret \in {preprocess_text(text)} :
            last' = Outcome("preprocess_text", text, Effect(ret, <<>>, <<>>))
    /\ Obtain

\* get_predictor().get_spelling_suggestions(query)
CallGetSpellingSuggestions ==
    /\ last.op = "idle"
    /\ \E query \in Texts \cup Descriptions :
        \E ret \in {get_spelling_suggestions(query)} :
            last' = Outcome("get_spelling_suggestions", query, Effect(ret, <<>>, <<>>))
    /\ Obtain

\* the answer is delivered; the next call may be made
Respond ==
    /\ last.op # "idle"
    /\ last' = Idle
    /\ UNCHANGED <<csv, fault, predictor, constructed, pc, mine, got, served>>

Next ==
    \/ HandlePredict
    \/ HandleHealth
    \/ CallPredictCategory
    \/ CallPredictMultiple
    \/ CallCorrectSpelling
    \/ CallPreprocessText
    \/ CallGetSpellingSuggestions
    \/ Respond

Spec == Init /\ [][Next]_vars

(***************************************************************************)
(* Request threads: Flask serves each request on a thread of its own, and  *)
(* a thread may be preempted between any two steps of get_predictor().     *)
(***************************************************************************)
InitConc ==
    /\ Init
    /\ fault = "none"

\* a thread takes a request to /predict or /health and calls get_predictor()
Accept(t) ==
    /\ pc[t] = "idle"
    /\ served[t] < MaxRequests
    /\ served' = [served EXCEPT ![t] = @ + 1]
    /\ pc' = [pc EXCEPT ![t] = "test"]
    /\ got' = [got EXCEPT ![t] = PyNone]
    /\ UNCHANGED <<csv, fault, predictor, constructed, last, mine>>

\* if predictor is None:
Test(t) ==
    /\ pc[t] = "test"
    /\ pc' = [pc EXCEPT ![t] = IF predictor = PyNone THEN "construct" ELSE "return"]
    /\ UNCHANGED <<csv, fault, predictor, constructed, last, mine, got, served>>

\* ProductCategoryPredictor(): the file is read and the embeddings computed
Construct(t) ==
    /\ pc[t] = "construct"
    /\ mine' = [mine EXCEPT ![t] = ProductCategoryPredictor(csv, constructed + 1)]
    /\ constructed' = constructed + 1
    /\ pc' = [pc EXCEPT ![t] = "assign"]
    /\ UNCHANGED <<csv, fault, predictor, last, got, served>>

\* predictor = <the new instance>
Assign(t) ==
    /\ pc[t] = "assign"
    /\ predictor' = mine[t]
    /\ pc' = [pc EXCEPT ![t] = "return"]
    /\ UNCHANGED <<csv, fault, constructed, last, mine, got, served>>

\* return predictor
Return(t) ==
    /\ pc[t] = "return"
    /\ got' = [got EXCEPT ![t] = predictor]
    /\ pc' = [pc EXCEPT ![t] = "serve"]
    /\ UNCHANGED <<csv, fault, predictor, constructed, last, mine, served>>

\* the handler answers with the predictor it got
Finish(t) ==
    /\ pc[t] = "serve"
    /\ pc' = [pc EXCEPT ![t] = "idle"]
    /\ UNCHANGED <<csv, fault, predictor, constructed, last, mine, got, served>>

NextConc ==
    \E t \in Threads :
        \/ Accept(t)
        \/ Test(t)
        \/ Construct(t)
        \/ Assign(t)
        \/ Return(t)
        \/ Finish(t)

SpecConc == InitConc /\ [][NextConc]_vars

(***************************************************************************)
(* The properties checked.                                                 *)
(***************************************************************************)
\* the rows of the catalog the predictor holds
Catalog == predictor.val.categories

\* the dicts predict_category returned in the call or request just answered
Returned ==
    CASE last.op = "predict_category" /\ ~IsRaised(last.ret) -> <<last.ret>>
      [] last.op = "predict_multiple" /\ ~IsRaised(last.ret) -> last.ret.val
      [] last.op = "health" -> <<>>
      [] last.op = "predict" /\ last.ret.status = 200 ->
            IF "result" \in DOMAIN last.ret.body
            THEN <<last.ret.body.result>>
            ELSE last.ret.body.results.val
      [] OTHER -> <<>>

Unknown == PyStr(<<"U", "n", "k", "n", "o", "w", "n">>)

\* C1: the predictor is initialized exactly once: however the first callers of
\* get_predictor() interleave, ProductCategoryPredictor is constructed (and the
\* embeddings computed) at most once, and every caller receives the same instance.
C1_InitializedOnce ==
    /\ constructed <= 1
    /\ \A t, u \in Threads :
        got[t] # PyNone /\ got[u] # PyNone => got[t] = got[u]

\* C2: the id and the name of every result are those of one and the same row
\* of the deduplicated catalog, or the pair (None, "Unknown").
C2_PairFromOneRow ==
    \A n \in DOMAIN Returned :
        LET r == Returned[n].val
        IN  \/ \E i \in DOMAIN Catalog :
                /\ r["Predicted Cat ID"] = Catalog[i].category_id
                /\ r["Predicted Cat Name"] = Catalog[i].name
            \/ /\ r["Predicted Cat ID"] = PyNone
               /\ r["Predicted Cat Name"] = Unknown

\* C2 witness: a prediction answered with a row of the catalog other than the first
C2_Witness ==
    /\ last.op = "predict_category"
    /\ last.stdout = <<>>
    /\ last.ret.val["Predicted Cat ID"] # PyNone
    /\ last.ret.val["Predicted Cat Name"] # Catalog[1].name

\* C3: predict_category never raises; when a step of it fails (as it does on a
\* description that is no str, or when a library call fails) it returns the
\* name "Unknown", the id None, the score 0.0 and no suggestions; and every
\* result holds a numeric 'Confidence Score'.
C3_NeverRaises ==
    last.op = "predict_category" =>
        /\ ~IsRaised(last.ret)
        /\ last.ret.kind = "dict"
        /\ "Confidence Score" \in DOMAIN last.ret.val
        /\ last.ret.val["Confidence Score"].kind = "float"
        /\ (last.arg.kind # "str" \/ fault # "none") => last.stdout # <<>>
        /\ last.stdout # <<>> =>
            /\ last.ret.val["Predicted Cat Name"] = Unknown
            /\ last.ret.val["Predicted Cat ID"] = PyNone
            /\ last.ret.val["Confidence Score"] = PyFloat(0)
            /\ last.ret.val["spelling_suggestions"] = PyList(<<>>)

\* C3 witness: predict_category has been called with a description that is no str
C3_Witness ==
    /\ last.op = "predict_category"
    /\ last.arg = PyNone
    /\ last.stdout # <<>>
    /\ last.ret.val["Predicted Cat Name"] = Unknown

\* a str that begins or ends with whitespace
IsPadded(d) ==
    /\ d.kind = "str"
    /\ d.val # <<>>
    /\ IsSpace(d.val[1]) \/ IsSpace(d.val[Len(d.val)])

AllStrings(l) == \A i \in DOMAIN l : l[i].kind = "str"

\* C4, as claimed: predict_multiple([a, b, c]) equals
\* [predict_category(a), predict_category(b), predict_category(c)] on every
\* field, also for descriptions with leading or trailing whitespace.
C4_BatchEqualsSingles ==
    (last.op = "predict_multiple" /\ AllStrings(last.arg.val)) =>
        /\ ~IsRaised(last.ret)
        /\ Len(last.ret.val) = Len(last.arg.val)
        /\ \A i \in DOMAIN last.arg.val :
            last.ret.val[i] = predict_category(predictor.val, last.arg.val[i]).ret

\* C4, amended: predict_multiple([a, b, c]) equals, on every field, the list of
\* predict_category of each description where the description has no leading
\* or trailing whitespace, and of the description trimmed where it has.
C4_BatchEqualsTrimmedSingles ==
    (last.op = "predict_multiple" /\ AllStrings(last.arg.val)) =>
        /\ ~IsRaised(last.ret)
        /\ Len(last.ret.val) = Len(last.arg.val)
        /\ \A i \in DOMAIN last.arg.val :
            last.ret.val[i] =
                predict_category(predictor.val,
                    IF IsPadded(last.arg.val[i])
                    THEN PyStr(strip(last.arg.val[i].val))
                    ELSE last.arg.val[i]).ret

\* C4 witness: a batch of two descriptions, one of them padded, has been predicted
C4_Witness ==
    /\ last.op = "predict_multiple"
    /\ AllStrings(last.arg.val)
    /\ Len(last.arg.val) = 2
    /\ IsPadded(last.arg.val[1])
    /\ ~IsPadded(last.arg.val[2])
    /\ Len(last.ret.val) = 2

\* the sentinel fields of a result
IsSentinel(r) ==
    /\ r.val["Predicted Cat Name"] = Unknown
    /\ r.val["Predicted Cat ID"] = PyNone
    /\ r.val["Confidence Score"] = PyFloat(0)
    /\ r.val["spelling_suggestions"] = PyList(<<>>)

\* C5: predict_multiple contains the failure of an item, also of one that
\* cannot be trimmed: it does not raise, and returns one result per description,
\* in order: the sentinel for an item that failed, and for any other the
\* result the item gets when predicted alone.
C5_BatchContainsFailures ==
    last.op = "predict_multiple" =>
        /\ ~IsRaised(last.ret)
        /\ Len(last.ret.val) = Len(last.arg.val)
        /\ \A i \in DOMAIN last.arg.val :
            IF last.arg.val[i].kind # "str"
            THEN IsSentinel(last.ret.val[i])
            ELSE last.ret.val[i] =
                    predict_category(predictor.val, py_strip(last.arg.val[i])).ret

\* C6: correct_spelling is idempotent, no corrected form being a key of the table.
C6_CorrectSpellingIdempotent ==
    /\ \A k \in DOMAIN tech_corrections : tech_corrections[k] \notin DOMAIN tech_corrections
    /\ (last.op = "correct_spelling" /\ last.arg.kind = "str") =>
        /\ ~IsRaised(last.ret)
        /\ correct_spelling(last.ret) = last.ret

\* C6 witness: a text of two words or more, one of them a key, has been corrected
C6_Witness ==
    /\ last.op = "correct_spelling"
    /\ last.arg.kind = "str"
    /\ Len(split(last.arg.val)) >= 2
    /\ \E w \in Range(split(lower(last.arg.val))) : w \in DOMAIN tech_corrections
    /\ last.ret.val # lower(last.arg.val)

\* C7: preprocess_text returns for every string, is idempotent, and its output
\* holds only lowercase letters, digits and whitespace, none of it leading or
\* trailing.
C7_PreprocessIdempotent ==
    (last.op = "preprocess_text" /\ last.arg.kind = "str") =>
        /\ last.ret.kind = "str"
        /\ preprocess_text(last.ret) = last.ret
        /\ \A c \in Range(last.ret.val) : IsLower(c) \/ c \in DigitChars \/ IsSpace(c)
        /\ last.ret.val # <<>> =>
            /\ ~IsSpace(last.ret.val[1])
            /\ ~IsSpace(last.ret.val[Len(last.ret.val)])

\* C7 witness: a padded text with a capital and a character that is neither a
\* letter, a digit nor whitespace has been cleaned
C7_Witness ==
    /\ last.op = "preprocess_text"
    /\ IsPadded(last.arg)
    /\ \E c \in Range(last.arg.val) : IsUpper(c)
    /\ "-" \in Range(last.arg.val)
    /\ last.ret.val # <<>>

\* the type of a request and the descriptions of a batch request
TypeOf(data) == Get(data, "type", "single")
BatchOf(data) == Get(data, "descriptions", PyList(<<>>)).val

IsBlank(d) == d.kind = "str" /\ \A c \in Range(d.val) : IsSpace(c)

\* the descriptions of a batch that are not blank, trimmed, in their order
Trimmed(l) ==
    LET kept == SelectSeq(l, LAMBDA d : ~IsBlank(d))
    IN  [i \in DOMAIN kept |-> PyStr(strip(kept[i].val))]

\* C8: a single request with a blank (or no) description and a batch request
\* with only blank descriptions are answered 400, success false, and nothing is
\* handed to predict_category; of a batch with blank and other descriptions,
\* the others are predicted, trimmed and in their order.
C8_EmptyNeverPredicted ==
    last.op = "predict" =>
        /\ (TypeOf(last.arg) = "single"
              /\ IsBlank(Get(last.arg, "description", PyStr(<<>>)))) =>
            /\ last.ret.status = 400
            /\ last.ret.body.success = FALSE
            /\ last.calls = <<>>
        /\ (TypeOf(last.arg) = "multiple"
              /\ \A i \in DOMAIN BatchOf(last.arg) : IsBlank(BatchOf(last.arg)[i])) =>
            /\ last.ret.status = 400
            /\ last.ret.body.success = FALSE
            /\ last.calls = <<>>
        /\ (TypeOf(last.arg) = "multiple"
              /\ AllStrings(BatchOf(last.arg))
              /\ \E i \in DOMAIN BatchOf(last.arg) : ~IsBlank(BatchOf(last.arg)[i])) =>
            /\ last.ret.status = 200
            /\ last.calls = Trimmed(BatchOf(last.arg))
            /\ Len(last.ret.body.results.val) = Len(last.calls)

\* C8 witness: a batch of a blank description and another has been answered
C8_Witness ==
    /\ last.op = "predict"
    /\ TypeOf(last.arg) = "multiple"
    /\ Len(BatchOf(last.arg)) = 2
    /\ IsBlank(BatchOf(last.arg)[1])
    /\ last.ret.status = 200
    /\ Len(last.calls) = 1

\* no word of the description, lowercased, is a key of the table
NoKeyWord(d) ==
    \A w \in Range(split(lower(d.val))) : w \notin DOMAIN tech_corrections

\* lowercase, trimmed, its words one space apart
IsPlain(d) ==
    /\ \A i \in DOMAIN d.val :
        /\ ~IsUpper(d.val[i])
        /\ IsSpace(d.val[i]) =>
            /\ d.val[i] = " "
            /\ i > 1 /\ i < Len(d.val)
            /\ ~IsSpace(d.val[i + 1])

Succeeded == last.op = "predict_category" /\ last.stdout = <<>>

\* C9, as claimed: on success used_query is correct_spelling(description), and
\* for a description none of whose words is a key it equals original_query.
C9_UsedQueryIsOriginal ==
    Succeeded =>
        /\ last.ret.val["used_query"] = correct_spelling(last.arg)
        /\ NoKeyWord(last.arg) =>
            last.ret.val["used_query"] = last.ret.val["original_query"]

\* C9, amended: on success used_query is correct_spelling(description); for a
\* description none of whose words is a key it equals original_query exactly
\* when the description is lowercase, trimmed and its words one space apart.
C9_UsedQueryIsCorrected ==
    Succeeded =>
        /\ last.ret.val["used_query"] = correct_spelling(last.arg)
        /\ last.ret.val["original_query"] = last.arg
        /\ NoKeyWord(last.arg) =>
            (last.ret.val["used_query"] = last.ret.val["original_query"]
                <=> IsPlain(last.arg))

\* C9 witness: a lowercase description of two words one space apart, neither
\* a key, has been predicted with success
C9_Witness ==
    /\ Succeeded
    /\ NoKeyWord(last.arg)
    /\ IsPlain(last.arg)
    /\ Len(split(last.arg.val)) >= 2

\* the scores of the query just answered against the rows of the catalog
Scores ==
    cosine_similarity(encode(preprocess_text(last.ret.val["used_query"])),
                      predictor.val.category_embeddings)

IsMax(v, i) == \A j \in DOMAIN v : v[j] <= v[i]

\* C10: the row selected is the one of lowest index whose score is the maximum
\* over the catalog: its id, its name and that score make the result, and the
\* same query against the same catalog gives the same result again.
C10_FirstMaximumWins ==
    Succeeded =>
        \E i \in DOMAIN Scores :
            /\ IsMax(Scores, i)
            /\ \A j \in DOMAIN Scores : IsMax(Scores, j) => i <= j
            /\ last.ret.val["Predicted Cat ID"] = Catalog[i].category_id
            /\ last.ret.val["Predicted Cat Name"] = Catalog[i].name
            /\ last.ret.val["Confidence Score"] = PyFloat(Scores[i])
            /\ predict_category(predictor.val, last.arg).ret = last.ret

\* C10 witness: two rows of different ids tie at a maximum above 0
C10_Witness ==
    /\ Succeeded
    /\ \E i, j \in DOMAIN Scores :
        /\ i < j
        /\ IsMax(Scores, i) /\ IsMax(Scores, j)
        /\ Scores[i] > 0
        /\ Catalog[i].category_id # Catalog[j].category_id
        /\ last.ret.val["Predicted Cat ID"] = Catalog[i].category_id

\* the words of the description, lowercased
Tokens == split(lower(last.arg.val))

\* the places of the words the table corrects to another word
Misspelt(words) ==
    {i \in DOMAIN words :
        words[i] \in DOMAIN tech_corrections /\ tech_corrections[words[i]] # words[i]}

\* the n-th of the places S
Nth(S, n) == CHOOSE i \in S : Cardinality({j \in S : j <= i}) = n

\* "'<original>' might be '<corrected>'"
MightBe(original, corrected) ==
    PyStr(<<"'">> \o original \o <<"'", " ", "m", "i", "g", "h", "t", " ", "b", "e", " ", "'">>
            \o corrected \o <<"'">>)

\* the suggestions just returned, by get_spelling_suggestions or in a result
Suggested ==
    IF last.op = "get_spelling_suggestions" THEN last.ret.val
    ELSE last.ret.val["spelling_suggestions"].val

\* C11: get_spelling_suggestions returns, in the order of the words of the
\* lowercased description, one suggestion "'<original>' might be '<corrected>'"
\* for each occurrence of a word that the table corrects to another, and
\* nothing for any other word; so a successful prediction carries as many
\* suggestions as correct_spelling replaced words.
C11_OneSuggestionPerCorrection ==
    ((last.op = "get_spelling_suggestions" /\ last.arg.kind = "str") \/ Succeeded) =>
        \A words \in {Tokens} : \A places \in {Misspelt(words)} :
            /\ Len(Suggested) = Cardinality(places)
            /\ \A n \in DOMAIN Suggested : \A i \in {Nth(places, n)} :
                Suggested[n] = MightBe(words[i], tech_corrections[words[i]])
            /\ \A corrected \in {split(IF Succeeded THEN last.ret.val["used_query"].val
                                         ELSE correct_spelling(last.arg).val)} :
                /\ Len(corrected) = Len(words)
                /\ Len(Suggested) =
                        Cardinality({i \in DOMAIN words : corrected[i] # words[i]})

\* C11 witness: 'wasing machn' has been predicted as 'washing machine', with
\* two suggestions, for wasing and then for machn
C11_Witness ==
    /\ Succeeded
    /\ last.arg = PyStr(<<"w", "a", "s", "i", "n", "g", " ", "m", "a", "c", "h", "n">>)
    /\ last.ret.val["used_query"] =
            PyStr(<<"w", "a", "s", "h", "i", "n", "g", " ", "m", "a", "c", "h", "i", "n", "e">>)
    /\ last.ret.val["spelling_suggestions"].val =
            << MightBe(<<"w", "a", "s", "i", "n", "g">>, <<"w", "a", "s", "h", "i", "n", "g">>),
               MightBe(<<"m", "a", "c", "h", "n">>, <<"m", "a", "c", "h", "i", "n", "e">>) >>

====
